---------------------------- MODULE Spec2Model ----------------------------
(***************************************************************************)
(* A model of the ADV-O synthetic transaction generator.                   *)
(*                                                                         *)
(*   Spec        the day loop of _generate_transactions_table for one      *)
(*               customer, every random draw a nondeterministic choice.    *)
(*   SpecGen     Generator(...) and generate() over the customers, the     *)
(*               draws taken from the process-wide generators as the code  *)
(*               seeds them; a second run follows the first.               *)
(*   SpecEpisode the day loop of one customer over MaxEpisodeDays days,    *)
(*               the terminals drawn from the stream line 85 seeds.        *)
(*   SpecRadius  the two radius functions applied to bounded arguments.    *)
(*   SpecTime    compute_time and compute_first_time along a fraud chain.  *)
(*   SpecIO      export and load.                                          *)
(*                                                                         *)
(* A transaction row is modelled by the columns the day loop and the       *)
(* assembly decide: TX_TIME_DAYS, CUSTOMER_ID, TERMINAL_ID, TX_FRAUD, plus *)
(* the branch that produced it (walk).  Time of day is modelled by the     *)
(* compute_time specification, amounts are not modelled.                   *)
(***************************************************************************)
EXTENDS Integers, Sequences, FiniteSets, TLC

VARIABLES
    \* ---- Generator configuration (generator.py 42-49)
    n_customers, nb_days, max_days_from_compromission, radius,
    \* ---- the customer's row: customer_profile.available_terminals
    avail,
    \* ---- Generator.generate / _generate_transactions_table
    pc,                       \* "new" | "idle" | "day" | "table" | "concat" | "done"
    cust,                     \* CUSTOMER_ID of the group being applied
    day,                      \* the day loop's index
    days_from_compromission,  \* line 83
    compromised,              \* customer_profile['compromised'] of the row copy
    customer_transactions,    \* line 84
    branches,                 \* history: the branch each day of this customer took
    applied,                  \* the tables groupby.apply has collected so far
    transactions_df,          \* self.transactions_df (<<>> before generate)
    raised,                   \* "" or the exception that aborted the run
    \* ---- the process-wide random generators and the runs compared
    random_state,             \* self.random_state
    np_state,                 \* the state of numpy's global generator
    py_state,                 \* the state of the random module's generator
    run,                      \* 1 or 2: which generate() run this is
    first_run,                \* the per-customer tables of run 1
    \* ---- a call of the radius functions (radius.py)
    q_point, q_terminals, q_r, \* the arguments: point, x_y_terminals, r
    q_called,                 \* which of the two functions have returned
    q_plain,                  \* the result of get_list_terminals_within_radius
    q_weighted,               \* the result of ..._within_radius_from_point
    \* ---- the times of a fraud chain (compute_time, compute_first_time)
    t_pc,                     \* "chain" | "loop" | "ret": where compute_time is
    previous_fraud,           \* <<time, day>> of the last recorded transaction
    t_day,                    \* the day being generated
    t_left,                   \* transactions of the day still to generate
    time_tx,                  \* compute_time's local
    \* ---- export and load
    io_df,                    \* "none" | "generated" | "loaded": self.transactions_df
    io_files,                 \* the names of the files on disk
    io_call,                  \* the last call: its name and arguments
    io_raised                 \* "" or the exception the last call raised

genVars == <<n_customers, nb_days, max_days_from_compromission, radius, avail, pc, cust,
             day, days_from_compromission, compromised, customer_transactions,
             branches, applied, transactions_df, raised>>

rngVars == <<random_state, np_state, py_state, run, first_run>>

radVars == <<q_point, q_terminals, q_r, q_called, q_plain, q_weighted>>

timeVars == <<t_pc, previous_fraud, t_day, t_left, time_tx>>

ioVars == <<io_df, io_files, io_call, io_raised>>

vars == <<genVars, rngVars, radVars, timeVars, ioVars>>

\* what the actions of one part of the model leave alone
notLoop == <<rngVars, radVars, timeVars, ioVars>>
notGen == <<radVars, timeVars, ioVars>>
notRad == <<genVars, rngVars, timeVars, ioVars>>
notTime == <<genVars, rngVars, radVars, ioVars>>
notIo == <<genVars, rngVars, radVars, timeVars>>

----------------------------------------------------------------------------
(* Bounds of the model *)
MaxCustomers == 2
MaxDays == 3
MaxWindow == 2
MaxTx == 2
MaxCoord == 2
MaxTable == 2
MaxEpisodeDays == 4

----------------------------------------------------------------------------
(* Geometry: a fixed population on a line; the radius is chosen in Init.   *)

\* terminal_profiles_table[['x_terminal_id','y_terminal_id']], 0-based ids
x_y_terminals == <<<<1, 0>>, <<2, 0>>>>

\* the (x_customer_id, y_customer_id) of customer c
x_y_customer(c) == <<4 * c, 0>>

TerminalIds == 0 .. (Len(x_y_terminals) - 1)

Radii == {2, 3}

\* floor of the square root: np.sqrt compared with an integer radius
Isqrt(n) == CHOOSE k \in 0 .. n : k * k <= n /\ n < (k + 1) * (k + 1)

\* np.sum(np.square(point - x_y_terminals), axis=1)[i]   (0-based i)
SquaredDist(point, terminals, i) ==
    LET t == terminals[i + 1]
    IN  (point[1] - t[1]) * (point[1] - t[1]) + (point[2] - t[2]) * (point[2] - t[2])

\* a slip: a terminal at distance exactly r is kept
WithinRadius_inclusive(point, terminals, r, i) ==
    Isqrt(SquaredDist(point, terminals, i)) <= r

\* dist_x_y < r for terminal i, with dist_x_y = np.sqrt(...): for an integer r,
\* sqrt(d) < r  iff  floor(sqrt(d)) < r
WithinRadius(point, terminals, r, i) ==
    Isqrt(SquaredDist(point, terminals, i)) < r

\* list(np.where(cond)[0]): the indices satisfying cond, ascending
RECURSIVE WhereFrom(_, _, _, _)
WhereFrom(point, terminals, r, i) ==
    IF i >= Len(terminals) THEN << >>
    ELSE (IF WithinRadius(point, terminals, r, i) THEN <<i>> ELSE << >>)
         \o WhereFrom(point, terminals, r, i + 1)

get_list_terminals_within_radius(point, terminals, r) ==
    WhereFrom(point, terminals, r, 0)

\* customer_profiles_table['available_terminals'] of customer c (lines 67-68)
available_terminals(c, r) ==
    get_list_terminals_within_radius(x_y_customer(c), x_y_terminals, r)

SeqRange(s) == {s[i] : i \in 1 .. Len(s)}

----------------------------------------------------------------------------
(* The day loop *)

\* compromised = 0 in generate_customer_profiles_table
InitialCompromised == 0

Tx(d, c, t, f, w) == [day |-> d, cust |-> c, terminal |-> t, fraud |-> f, walk |-> w]

\* a plausible slip: the episode cap is not tested
TakeFraudBranch_nocap(comp, txs, dfc, maxd) ==
    comp = 1 /\ Len(txs) > 0

\* a plausible slip: the transaction history is not tested
TakeFraudBranch_nolen(comp, txs, dfc, maxd) ==
    comp = 1 /\ dfc < maxd

\* the condition of line 91
TakeFraudBranch(comp, txs, dfc, maxd) ==
    comp = 1 /\ Len(txs) > 0 /\ dfc < maxd

\* generate_fraudulent_transactions: nb_tx transactions chained off the last
\* recorded one, each labelled fraud; picks[i] is the terminal of the i-th
generate_fraudulent_transactions(txs, nb_tx, c, d, picks) ==
    txs \o [i \in 1 .. nb_tx |-> Tx(d, c, picks[i], 1, TRUE)]

\* generate_genuine_transactions: nb_tx attempts, each skipped when the
\* customer has no available terminal; the label is the current flag
generate_genuine_transactions(txs, nb_tx, c, comp, terminals, d, picks) ==
    IF Len(terminals) = 0 THEN txs
    ELSE txs \o [i \in 1 .. nb_tx |-> Tx(d, c, picks[i], comp, FALSE)]

\* compromise_user: a genuine customer flips with the roll, a compromised one stays
compromise_user(comp, roll) == IF comp = 1 THEN 1 ELSE roll

\* what the fraud chain needs: a previous transaction (customer_transactions[-1])
FraudRaises(txs) == Len(txs) = 0

\* lines 92-93
FraudDay(st, nb_tx, picks) ==
    IF FraudRaises(st.customer_transactions)
    THEN [st EXCEPT !.raised = "IndexError", !.branch = "fraud"]
    ELSE [st EXCEPT
            !.customer_transactions =
                generate_fraudulent_transactions(@, nb_tx, st.cust, st.day, picks),
            !.days_from_compromission = @ + 1,
            !.branch = "fraud"]

\* a plausible slip: the flag is assigned the roll itself
GenuineDay_reroll(st, nb_tx, picks, roll) ==
    [st EXCEPT
       !.customer_transactions =
           generate_genuine_transactions(@, nb_tx, st.cust, st.compromised,
                                         st.avail, st.day, picks),
       !.compromised = roll,
       !.branch = "genuine"]

\* a plausible slip: lines 96 and 97 swapped, the roll made before the day's
\* transactions are generated
GenuineDay_rollfirst(st, nb_tx, picks, roll) ==
    [st EXCEPT
       !.customer_transactions =
           generate_genuine_transactions(@, nb_tx, st.cust,
                                         compromise_user(st.compromised, roll),
                                         st.avail, st.day, picks),
       !.compromised = compromise_user(@, roll),
       !.branch = "genuine"]

\* a plausible slip: the episode counter is reset on a genuine-style day
GenuineDay_reset(st, nb_tx, picks, roll) ==
    [st EXCEPT
       !.customer_transactions =
           generate_genuine_transactions(@, nb_tx, st.cust, st.compromised,
                                         st.avail, st.day, picks),
       !.compromised = compromise_user(@, roll),
       !.days_from_compromission = 0,
       !.branch = "genuine"]

\* lines 96-97
GenuineDay(st, nb_tx, picks, roll) ==
    [st EXCEPT
       !.customer_transactions =
           generate_genuine_transactions(@, nb_tx, st.cust, st.compromised,
                                         st.avail, st.day, picks),
       !.compromised = compromise_user(@, roll),
       !.branch = "genuine"]

\* one iteration of the loop of lines 87-97, given the day's draws
DayBody(st, nb_tx, picks, roll) ==
    IF TakeFraudBranch(st.compromised, st.customer_transactions,
                       st.days_from_compromission, st.maxd)
    THEN FraudDay(st, nb_tx, picks)
    ELSE GenuineDay(st, nb_tx, picks, roll)

\* the terminals a day's transactions may draw: a fraud walk reaches any
\* terminal, a genuine transaction one of the customer's available terminals
PickSets(fraud, terminals, nb_tx) ==
    IF fraud THEN [1 .. nb_tx -> TerminalIds]
    ELSE IF Len(terminals) = 0 THEN {<< >>}
    ELSE [1 .. nb_tx -> SeqRange(terminals)]

CurState ==
    [cust |-> cust, day |-> day, maxd |-> max_days_from_compromission,
     avail |-> avail,
     compromised |-> compromised, customer_transactions |-> customer_transactions,
     days_from_compromission |-> days_from_compromission,
     raised |-> raised, branch |-> ""]

----------------------------------------------------------------------------
(* _generate_transactions_table(customer_profile), nondeterministic draws *)

\* the customers of the population the model simulates
CustomerIds == 0 .. (MaxCustomers - 1)

\* the state in which _generate_transactions_table is entered for customer c
\* (lines 83-85): x.iloc[0] is a fresh copy of the customer's row
EnterCustomer(c) ==
    /\ cust = c
    /\ day = 0
    /\ days_from_compromission = 0
    /\ compromised = InitialCompromised
    /\ customer_transactions = << >>
    /\ branches = << >>

LoopInit ==
    /\ n_customers = MaxCustomers
    /\ nb_days \in 0 .. MaxDays
    /\ max_days_from_compromission \in 0 .. MaxWindow
    /\ radius \in Radii
    /\ \E c \in CustomerIds : EnterCustomer(c)
    /\ avail = available_terminals(cust, radius)
    /\ pc = IF nb_days > 0 THEN "day" ELSE "table"
    /\ applied = << >>
    /\ transactions_df = << >>
    /\ raised = ""

\* the assignments of one loop iteration, given the day's draws
DayAssign(nb_tx, picks, roll) ==
    LET st == DayBody(CurState, nb_tx, picks, roll)
    IN  /\ customer_transactions' = st.customer_transactions
        /\ compromised' = st.compromised
        /\ days_from_compromission' = st.days_from_compromission
        /\ raised' = st.raised
        /\ branches' = Append(branches, st.branch)
        /\ day' = day + 1
        /\ pc' = IF st.raised # "" THEN "done"
                 ELSE IF day + 1 < nb_days THEN "day" ELSE "table"

\* one day of the loop, lines 87-97
Day ==
    /\ pc = "day"
    /\ \E nb_tx \in 1 .. MaxTx, roll \in {0, 1} :
         LET fraud == TakeFraudBranch(compromised, customer_transactions,
                                      days_from_compromission,
                                      max_days_from_compromission)
         IN  \E picks \in PickSets(fraud, avail, nb_tx) :
               DayAssign(nb_tx, picks, roll)
    /\ UNCHANGED <<n_customers, nb_days, max_days_from_compromission, radius,
                   avail, cust, applied, transactions_df>>
    /\ UNCHANGED notLoop

\* lines 99-111: the rows become the returned table, in list order
Table ==
    /\ pc = "table"
    /\ applied' = Append(applied, customer_transactions)
    /\ pc' = "done"
    /\ UNCHANGED <<n_customers, nb_days, max_days_from_compromission, radius,
                   avail, cust, day, days_from_compromission, compromised,
                   customer_transactions, branches, transactions_df, raised>>
    /\ UNCHANGED notLoop

----------------------------------------------------------------------------
(* Claims about the day loop, checked under Spec *)

FraudDays == Cardinality({i \in 1 .. Len(branches) : branches[i] = "fraud"})

LastBranch == IF Len(branches) = 0 THEN "" ELSE branches[Len(branches)]

C2_CounterBounded ==
    /\ days_from_compromission >= 0
    /\ days_from_compromission <= max_days_from_compromission
    /\ days_from_compromission = FraudDays
    /\ FraudDays <= max_days_from_compromission

\* C2 witness: the cap was reached and a later day ran with the counter at it.
C2_Witness ==
    /\ max_days_from_compromission > 0
    /\ days_from_compromission = max_days_from_compromission
    /\ LastBranch = "genuine"
    /\ compromised = 1

\* the rows a step appended to customer_transactions
Appended(old, new) == SubSeq(new, Len(old) + 1, Len(new))

C5_DayZeroGenuine ==
    /\ Len(branches) > 0 => branches[1] = "genuine"
    /\ \A i \in 1 .. Len(customer_transactions) :
         customer_transactions[i].day = 0 =>
            (customer_transactions[i].fraud = 0 /\ ~customer_transactions[i].walk)

\* C5 witness: a customer with day-0 transactions that was compromised on
\* day 0 and has fraud-walk transactions on a later day.
C5_Witness ==
    /\ \E i \in 1 .. Len(customer_transactions) : customer_transactions[i].day = 0
    /\ \E i \in 1 .. Len(customer_transactions) : customer_transactions[i].walk
    /\ Len(branches) > 1 /\ branches[2] = "fraud"

\* C7: a customer with no available terminal makes the day loop run all its
\* nb_days days without raising and never has a genuine transaction (nor any
\* other) referencing a terminal.
C7_EmptyAvailableOk ==
    Len(avail) = 0 =>
        /\ raised = ""
        /\ (pc \in {"table", "done"} => day = nb_days)
        /\ \A i \in 1 .. Len(customer_transactions) : customer_transactions[i].walk
        /\ Len(customer_transactions) = 0

\* C7 witness: such a customer finished a run of MaxDays days, compromised.
C7_Witness ==
    /\ Len(avail) = 0
    /\ pc = "done"
    /\ nb_days = MaxDays
    /\ day = nb_days
    /\ compromised = 1

    /\ Len(applied) = 1

LoopNext == Day \/ Table

NoResult == [available |-> << >>, weights |-> << >>]

\* no call of the radius functions is in progress
RadIdle ==
    /\ q_point = <<0, 0>>
    /\ q_terminals = << >>
    /\ q_r = 0
    /\ q_called = {}
    /\ q_plain = << >>
    /\ q_weighted = NoResult

\* the generators are not part of the nondeterministic model of the loop
RngIdle ==
    /\ random_state = 0
    /\ np_state = 0
    /\ py_state = 0
    /\ run = 1
    /\ first_run = << >>

\* no fraud chain is being timed
TimeIdle ==
    /\ t_pc = "chain"
    /\ previous_fraud = <<0, 0>>
    /\ t_day = 0
    /\ t_left = 0
    /\ time_tx = 0

NoCall == [op |-> "none", name |-> << >>, format |-> << >>]

\* no file has been written or read
IoIdle ==
    /\ io_df = "none"
    /\ io_files = {}
    /\ io_call = NoCall
    /\ io_raised = ""

Init == LoopInit /\ RngIdle /\ RadIdle /\ TimeIdle /\ IoIdle

Next == LoopNext

Spec == Init /\ [][Next]_vars

----------------------------------------------------------------------------
(* Generator.generate() with the random generators as the code seeds them: *)
(* a generator is a deterministic stream, its state advanced by each draw. *)

\* one draw advances a generator's state
RngStep(s) == (5 * s + 3) % 16

RECURSIVE RngSkip(_, _)
RngSkip(s, k) == IF k = 0 THEN s ELSE RngSkip(RngStep(s), k - 1)

\* np.random.seed(k), random.seed(k)
RngSeed(k) == k % 16

Seeds == 0 .. 15

\* np.random.poisson(mean_nb_tx_per_day) drawn in state s, cut to the model's range
Poisson(s) == (s \div 2) % MaxTx

\* the binomial roll of compromise_user drawn in state s
Bernoulli(s) == (s \div 4) % 2

\* random.choice over k items drawn in state s: a 0-based position
Choice(s, k) == (s \div 2) % k

\* _initialize, lines 64-71: the profile tables reseed numpy with random_state
\* (customers.py:20) and draw four uniforms per customer (customers.py:25-29);
\* fraudsters_mean and fraudsters_var draw two normals (lines 70-71)
NpAfterInitialize(seed, n) == RngSkip(RngSeed(seed), 4 * n + 2)

\* line 85 seeds the random module only: numpy's state is what the previous
\* draws of the process left
NpAtCustomer(s, c) == s

\* the terminals drawn for the nb_tx transactions of a day, from the random
\* module's stream: positions in the list the branch draws from
PicksFrom(s, terminals, nb_tx) ==
    IF Len(terminals) = 0 THEN << >>
    ELSE [i \in 1 .. nb_tx |->
             terminals[Choice(RngSkip(s, i - 1), Len(terminals)) + 1]]

AllTerminals == [i \in 1 .. Len(x_y_terminals) |-> i - 1]

GenInit ==
    /\ random_state \in Seeds
    /\ nb_days \in 1 .. MaxDays
    /\ max_days_from_compromission \in 0 .. MaxWindow
    /\ radius \in Radii
    /\ n_customers = 0
    /\ pc = "new"
    /\ cust = 0
    /\ avail = << >>
    /\ day = 0
    /\ days_from_compromission = 0
    /\ compromised = InitialCompromised
    /\ customer_transactions = << >>
    /\ branches = << >>
    /\ applied = << >>
    /\ transactions_df = << >>
    /\ raised = ""
    /\ np_state = 0
    /\ py_state = 0
    /\ run = 1
    /\ first_run = << >>
    /\ RadIdle
    /\ TimeIdle
    /\ IoIdle

\* Generator(n_customers=n, random_state=random_state, ...): lines 39-71
Construct ==
    /\ UNCHANGED notGen
    /\ pc = "new"
    /\ \E n \in 1 .. MaxCustomers :
         /\ n_customers' = n
         /\ np_state' = NpAfterInitialize(random_state, n)
    /\ pc' = "idle"
    /\ UNCHANGED <<nb_days, max_days_from_compromission, radius, avail, cust, day,
                   days_from_compromission, compromised, customer_transactions,
                   branches, applied, transactions_df, raised,
                   random_state, py_state, run, first_run>>

\* lines 83-85 for the group of customer c
ApplyTo(c) ==
    /\ cust' = c
    /\ avail' = available_terminals(c, radius)
    /\ day' = 0
    /\ days_from_compromission' = 0
    /\ compromised' = InitialCompromised
    /\ customer_transactions' = << >>
    /\ branches' = << >>
    /\ py_state' = RngSeed(c)
    /\ np_state' = NpAtCustomer(np_state, c)
    /\ pc' = IF nb_days > 0 THEN "day" ELSE "table"

\* generate(), line 121-122: groupby applies to the smallest CUSTOMER_ID first
Generate ==
    /\ UNCHANGED notGen
    /\ pc = "idle"
    /\ ApplyTo(0)
    /\ applied' = << >>
    /\ UNCHANGED <<n_customers, nb_days, max_days_from_compromission, radius,
                   transactions_df, raised, random_state, run, first_run>>

\* one day of the loop, lines 87-97, its draws taken from the generators
GDay ==
    /\ UNCHANGED notGen
    /\ pc = "day"
    /\ LET nb_tx == Poisson(np_state) + 1
           fraud == TakeFraudBranch(compromised, customer_transactions,
                                    days_from_compromission,
                                    max_days_from_compromission)
           from  == IF fraud THEN AllTerminals ELSE avail
           picks == PicksFrom(py_state, from, nb_tx)
           \* numpy draws of the transactions: centre, amount, time
           used  == IF fraud THEN 4 * nb_tx ELSE 2 * nb_tx
           s1    == RngSkip(RngStep(np_state), used)
       IN  /\ DayAssign(nb_tx, picks, Bernoulli(s1))
           /\ np_state' = IF fraud THEN s1 ELSE RngStep(s1)
           /\ py_state' = RngSkip(py_state, Len(picks))
    /\ UNCHANGED <<n_customers, nb_days, max_days_from_compromission, radius,
                   avail, cust, applied, transactions_df,
                   random_state, run, first_run>>

\* lines 99-111 and the return into groupby.apply, which moves to the next key
GTable ==
    /\ UNCHANGED notGen
    /\ pc = "table"
    /\ applied' = Append(applied, customer_transactions)
    /\ IF cust + 1 < n_customers
       THEN ApplyTo(cust + 1)
       ELSE /\ pc' = "concat"
            /\ UNCHANGED <<cust, avail, day, days_from_compromission, compromised,
                           customer_transactions, branches, np_state, py_state>>
    /\ UNCHANGED <<n_customers, nb_days, max_days_from_compromission, radius,
                   transactions_df, raised, random_state, run, first_run>>

\* a slip: the groups concatenated last key first
RECURSIVE Concat_reversed(_)
Concat_reversed(tables) ==
    IF Len(tables) = 0 THEN << >> ELSE Concat_reversed(Tail(tables)) \o Head(tables)

\* the tables groupby.apply collected, concatenated in key order
RECURSIVE Concat(_)
Concat(tables) ==
    IF Len(tables) = 0 THEN << >> ELSE Head(tables) \o Concat(Tail(tables))

\* line 122: the result of apply, index reset, becomes self.transactions_df
Assemble ==
    /\ UNCHANGED notGen
    /\ pc = "concat"
    /\ transactions_df' = Concat(applied)
    /\ pc' = "done"
    /\ UNCHANGED <<n_customers, nb_days, max_days_from_compromission, radius,
                   avail, cust, day, days_from_compromission, compromised,
                   customer_transactions, branches, applied, raised, rngVars>>

\* the same process builds a second Generator with the same configuration
\* but for the number of customers
Reconstruct ==
    /\ UNCHANGED notGen
    /\ pc = "done"
    /\ run = 1
    /\ run' = 2
    /\ first_run' = applied
    /\ pc' = "new"
    /\ UNCHANGED <<n_customers, nb_days, max_days_from_compromission, radius,
                   avail, cust, day, days_from_compromission, compromised,
                   customer_transactions, branches, applied, transactions_df,
                   raised, random_state, np_state, py_state>>

\* generate() is called again on the same Generator
Regenerate ==
    /\ UNCHANGED notGen
    /\ pc = "done"
    /\ run = 1
    /\ run' = 2
    /\ first_run' = applied
    /\ pc' = "idle"
    /\ UNCHANGED <<n_customers, nb_days, max_days_from_compromission, radius,
                   avail, cust, day, days_from_compromission, compromised,
                   customer_transactions, branches, applied, transactions_df,
                   raised, random_state, np_state, py_state>>

GenNext == Construct \/ Generate \/ GDay \/ GTable \/ Assemble \/ Reconstruct \/ Regenerate

SpecGen == GenInit /\ [][GenNext]_vars

----------------------------------------------------------------------------
(* The day loop of one customer over a longer horizon.  Line 85 seeds the  *)
(* random module with the customer's id, so the terminals are the draws of *)
(* that stream; nb_tx and the compromise roll come from numpy's generator, *)
(* whose state on entry is whatever the process left: any value.           *)

EpisodeInit ==
    /\ n_customers = MaxCustomers
    /\ nb_days \in 0 .. MaxEpisodeDays
    /\ max_days_from_compromission \in 0 .. MaxWindow
    /\ radius \in Radii
    /\ \E c \in CustomerIds : EnterCustomer(c)
    /\ avail = available_terminals(cust, radius)
    /\ pc = IF nb_days > 0 THEN "day" ELSE "table"
    /\ applied = << >>
    /\ transactions_df = << >>
    /\ raised = ""
    /\ random_state = 0
    /\ np_state = 0
    /\ py_state = RngSeed(cust)
    /\ run = 1
    /\ first_run = << >>
    /\ RadIdle
    /\ TimeIdle
    /\ IoIdle

\* one day of the loop, lines 87-97
EpisodeDay ==
    /\ pc = "day"
    /\ \E nb_tx \in 1 .. MaxTx, roll \in {0, 1} :
         LET fraud == TakeFraudBranch(compromised, customer_transactions,
                                      days_from_compromission,
                                      max_days_from_compromission)
             from  == IF fraud THEN AllTerminals ELSE avail
             picks == PicksFrom(py_state, from, nb_tx)
         IN  /\ DayAssign(nb_tx, picks, roll)
             /\ py_state' = RngSkip(py_state, Len(picks))
    /\ UNCHANGED <<n_customers, nb_days, max_days_from_compromission, radius,
                   avail, cust, applied, transactions_df,
                   random_state, np_state, run, first_run>>
    /\ UNCHANGED notGen

\* lines 99-111: the rows become the returned table, in list order
EpisodeTable ==
    /\ pc = "table"
    /\ applied' = Append(applied, customer_transactions)
    /\ pc' = "done"
    /\ UNCHANGED <<n_customers, nb_days, max_days_from_compromission, radius,
                   avail, cust, day, days_from_compromission, compromised,
                   customer_transactions, branches, transactions_df, raised>>
    /\ UNCHANGED notLoop

EpisodeNext == EpisodeDay \/ EpisodeTable

SpecEpisode == EpisodeInit /\ [][EpisodeNext]_vars

----------------------------------------------------------------------------
(* Claims about the fraud episode, checked under SpecEpisode *)

\* the number of fraud-walk days among the first n days of the history b
FraudDaysUpTo(b, n) == Cardinality({i \in 1 .. n : b[i] = "fraud"})

\* the fraud-walk days of the history b are consecutive days
OneEpisode(b) ==
    \A i, k \in 1 .. Len(b) :
        (i < k /\ b[i] = "fraud" /\ b[k] = "fraud") =>
            \A j \in i .. k : b[j] = "fraud"

\* no fraud-walk day of the history b follows a day at whose end the count
\* of fraud-walk days had reached maxd
NoneAfterCap(b, maxd) ==
    \A i \in 0 .. Len(b) :
        FraudDaysUpTo(b, i) = maxd =>
            \A j \in (i + 1) .. Len(b) : b[j] # "fraud"

\* C11: a customer has at most one fraud episode per run: the fraud-walk days
\* are one run of consecutive days, the run starts on the day right after a
\* genuine day that ended with the flag true and a non-empty transaction
\* list, the counter is never reset, and once it has reached
\* max_days_from_compromission no later day takes the fraud-walk branch,
\* whatever the later rolls are.
C11_SingleEpisode ==
    [][Len(branches') > Len(branches) =>
         /\ OneEpisode(branches')
         /\ NoneAfterCap(branches', max_days_from_compromission)
         /\ days_from_compromission' >= days_from_compromission
         /\ (LastBranch' = "fraud" /\ LastBranch # "fraud") =>
                /\ LastBranch = "genuine"
                /\ FraudDays = 0
                /\ compromised = 1
                /\ Len(customer_transactions) > 0
         /\ days_from_compromission = max_days_from_compromission =>
                LastBranch' = "genuine"
      ]_vars

\* C11 witness: the episode ran, the counter reached the cap, and two later
\* days ran with the flag true without taking the fraud-walk branch.
C11_Witness ==
    /\ Len(branches) >= 4
    /\ \E i \in 2 .. (Len(branches) - 2) :
         /\ branches[i] = "fraud"
         /\ branches[i + 1] = "genuine"
         /\ branches[i + 2] = "genuine"
    /\ days_from_compromission = max_days_from_compromission
    /\ compromised = 1

----------------------------------------------------------------------------
(* The radius functions as pure functions of their arguments *)

\* weights = np.sum(squared_diff_x_y, axis=1), line 72
Weights(point, terminals) ==
    [i \in 1 .. Len(terminals) |-> SquaredDist(point, terminals, i - 1)]

\* list(np.where(np.sqrt(weights) < r)[0]), lines 75-78
RECURSIVE WhereWeights(_, _, _)
WhereWeights(weights, r, i) ==
    IF i >= Len(weights) THEN << >>
    ELSE (IF Isqrt(weights[i + 1]) < r THEN <<i>> ELSE << >>)
         \o WhereWeights(weights, r, i + 1)

\* np.exp(-w), kept symbolic
ExpNeg(w) == [exp_of_minus |-> w]

\* get_list_terminals_within_radius_from_point: (available_terminals,
\* np.exp(-weights[available_terminals]))
get_list_terminals_within_radius_from_point(x_centre, y_centre, terminals, r) ==
    LET weights == Weights(<<x_centre, y_centre>>, terminals)
        available == WhereWeights(weights, r, 0)
    IN  [available |-> available,
         weights |-> [k \in 1 .. Len(available) |-> ExpNeg(weights[available[k] + 1])]]

Coords == 0 .. MaxCoord

Points == Coords \X Coords

Tables == UNION {[1 .. n -> Points] : n \in 0 .. MaxTable}

RadInit ==
    /\ q_point \in Points
    /\ q_terminals \in Tables
    /\ q_r \in 0 .. (MaxCoord + 1)
    /\ q_called = {}
    /\ q_plain = << >>
    /\ q_weighted = NoResult

\* get_list_terminals_within_radius(customer_profile, x_y_terminals, r)
CallPlain ==
    /\ "plain" \notin q_called
    /\ q_plain' = get_list_terminals_within_radius(q_point, q_terminals, q_r)
    /\ q_called' = q_called \cup {"plain"}
    /\ UNCHANGED <<q_point, q_terminals, q_r, q_weighted>>
    /\ UNCHANGED notRad

\* get_list_terminals_within_radius_from_point(x_centre, y_centre, x_y_terminals, r)
CallWeighted ==
    /\ "weighted" \notin q_called
    /\ q_weighted' = get_list_terminals_within_radius_from_point(
                         q_point[1], q_point[2], q_terminals, q_r)
    /\ q_called' = q_called \cup {"weighted"}
    /\ UNCHANGED <<q_point, q_terminals, q_r, q_plain>>
    /\ UNCHANGED notRad

\* the generator is not running
GenIdle ==
    /\ n_customers = 0
    /\ nb_days = 0
    /\ max_days_from_compromission = 0
    /\ radius = 0
    /\ avail = << >>
    /\ pc = "new"
    /\ cust = 0
    /\ day = 0
    /\ days_from_compromission = 0
    /\ compromised = InitialCompromised
    /\ customer_transactions = << >>
    /\ branches = << >>
    /\ applied = << >>
    /\ transactions_df = << >>
    /\ raised = ""

RadNext == CallPlain \/ CallWeighted

RadSpecInit == RadInit /\ GenIdle /\ RngIdle /\ TimeIdle /\ IoIdle

SpecRadius == RadSpecInit /\ [][RadNext]_vars

----------------------------------------------------------------------------
(* The times of the fraud transactions of consecutive fraud days:          *)
(* generate_fraudulent_transactions hands compute_time the time and day of *)
(* the last recorded transaction.                                          *)

\* seconds in a day, the bound of the rejection loop
DaySeconds == 86400

\* values of np.random.normal(86400 / 8, 20000), line 220, as whole seconds:
\* the mean, both sides of the day boundary, and both tails
FirstNormalDraws == {-86401, -5000, 10800, 40000, 86400, 86401}

\* values of np.random.normal(loc=0, scale=30000), lines 322 and 324, as whole
\* seconds
StepNormalDraws == {-90000, -20000, 0, 1, 46400}

\* the time of day of the genuine transaction the chain starts from
GenuineTimes == {43200}

Abs(x) == IF x < 0 THEN -x ELSE x

\* compute_first_time: abs(int(draw)), with no test against 86400
compute_first_time(x) == Abs(x)

\* int(previous_fraud[0] + abs(draw)), lines 322 and 324
SameDayTime(prev, x) == prev + Abs(x)

TimeInit ==
    /\ t_pc = "chain"
    /\ previous_fraud \in {<<t, 0>> : t \in GenuineTimes}
    /\ t_day = 1
    /\ t_left \in 1 .. (MaxTx + 1)
    /\ time_tx = 0

\* compute_time(previous_fraud, day) is entered, lines 321-326
ComputeTime ==
    /\ UNCHANGED notTime
    /\ t_pc = "chain"
    /\ t_left > 0
    /\ IF previous_fraud[2] = t_day
       THEN \E x \in StepNormalDraws :
                /\ time_tx' = SameDayTime(previous_fraud[1], x)
                /\ t_pc' = "loop"
       ELSE \E x \in FirstNormalDraws :
                /\ time_tx' = compute_first_time(x)
                /\ t_pc' = "ret"
    /\ UNCHANGED <<previous_fraud, t_day, t_left>>

\* the body of the while of lines 323-324
Resample ==
    /\ UNCHANGED notTime
    /\ t_pc = "loop"
    /\ time_tx > DaySeconds
    /\ \E x \in StepNormalDraws : time_tx' = SameDayTime(previous_fraud[1], x)
    /\ UNCHANGED <<t_pc, previous_fraud, t_day, t_left>>

\* the while condition of line 323 is false
LeaveLoop ==
    /\ UNCHANGED notTime
    /\ t_pc = "loop"
    /\ ~(time_tx > DaySeconds)
    /\ t_pc' = "ret"
    /\ UNCHANGED <<previous_fraud, t_day, t_left, time_tx>>

\* line 327, and the transaction is recorded with the returned time
ReturnTime ==
    /\ UNCHANGED notTime
    /\ t_pc = "ret"
    /\ previous_fraud' = <<time_tx, t_day>>
    /\ t_left' = t_left - 1
    /\ t_pc' = "chain"
    /\ UNCHANGED <<t_day, time_tx>>

\* the next fraud day of the episode
NextFraudDay ==
    /\ UNCHANGED notTime
    /\ t_pc = "chain"
    /\ t_left = 0
    /\ t_day < MaxWindow
    /\ t_day' = t_day + 1
    /\ t_left' \in 1 .. (MaxTx + 1)
    /\ UNCHANGED <<t_pc, previous_fraud, time_tx>>

TimeNext == ComputeTime \/ Resample \/ LeaveLoop \/ ReturnTime \/ NextFraudDay

TimeSpecInit == TimeInit /\ GenIdle /\ RngIdle /\ RadIdle /\ IoIdle

SpecTime == TimeSpecInit /\ [][TimeNext]_vars

----------------------------------------------------------------------------
(* Generator.export and Generator.load.  A file name is the sequence of    *)
(* its characters, so that `filename + '.' + format` and endswith are what *)
(* the code computes.                                                      *)

Csv == <<"c", "s", "v">>
Pkl == <<"p", "k", "l">>
Dot == <<".">>

\* values of export's format argument
Formats == {Csv, Pkl, <<"j", "s", "o", "n">>, <<"C", "S", "V">>, << >>}

\* values of export's filename argument
BaseNames == {<<"a">>, <<"b">>}

\* values of load's filename argument
LoadNames == {b \o Dot \o f : b \in BaseNames, f \in Formats} \cup BaseNames

\* str.endswith
EndsWith(name, suffix) ==
    /\ Len(name) >= Len(suffix)
    /\ SubSeq(name, Len(name) - Len(suffix) + 1, Len(name)) = suffix

\* generate() has run: self.transactions_df exists
IoGenerate ==
    /\ io_df' = "generated"
    /\ io_call' = [op |-> "generate", name |-> << >>, format |-> << >>]
    /\ io_raised' = ""
    /\ UNCHANGED io_files
    /\ UNCHANGED notIo

\* export(filename, format), lines 145-155
Export ==
    /\ \E filename \in BaseNames, format \in Formats :
         LET full == filename \o Dot \o format
         IN  /\ io_call' = [op |-> "export", name |-> full, format |-> format]
             /\ IF io_df = "none"
                THEN \* line 145: the attribute does not exist before generate or load
                     /\ io_raised' = "AttributeError"
                     /\ UNCHANGED io_files
                ELSE /\ io_raised' = ""
                     /\ io_files' = IF format = Csv \/ format = Pkl
                                    THEN io_files \cup {full}
                                    ELSE io_files
    /\ UNCHANGED io_df
    /\ UNCHANGED notIo

\* load(filename), lines 169-183
Load ==
    /\ \E filename \in LoadNames :
         /\ io_call' = [op |-> "load", name |-> filename, format |-> << >>]
         /\ IF EndsWith(filename, Dot \o Csv) \/ EndsWith(filename, Dot \o Pkl)
            THEN IF filename \in io_files
                 THEN io_raised' = "" /\ io_df' = "loaded"
                 ELSE io_raised' = "FileNotFoundError" /\ UNCHANGED io_df
            ELSE io_raised' = "ValueError" /\ UNCHANGED io_df
    /\ UNCHANGED io_files
    /\ UNCHANGED notIo

IoNext == IoGenerate \/ Export \/ Load

IoSpecInit == IoIdle /\ GenIdle /\ RngIdle /\ RadIdle /\ TimeIdle

SpecIO == IoSpecInit /\ [][IoNext]_vars

----------------------------------------------------------------------------
(* Claims about generate(), checked under SpecGen *)

MinOf(a, b) == IF a <= b THEN a ELSE b

\* C4: the transaction sequence of a customer depends only on the customer's
\* profile, the configuration and the seed derived from the customer ID: a
\* customer simulated in two runs gets the same sequence in both, whatever
\* the population size and whatever was simulated before it.
C4_StreamsIndependent ==
    run = 2 =>
        \A k \in 1 .. MinOf(Len(first_run), Len(applied)) :
            applied[k] = first_run[k]

RowsOrdered(rows) ==
    \A i, j \in 1 .. Len(rows) :
        i < j => \/ rows[i].cust < rows[j].cust
                 \/ (rows[i].cust = rows[j].cust /\ rows[i].day <= rows[j].day)

RECURSIVE SumLen(_)
SumLen(tables) == IF Len(tables) = 0 THEN 0 ELSE Len(Head(tables)) + SumLen(Tail(tables))

IsPrefix(s, t) == Len(s) <= Len(t) /\ SubSeq(t, 1, Len(s)) = s

\* C6: within a customer's stream the day index never decreases and a later
\* day only appends to the rows recorded so far; the dataset generate()
\* assembles lists the customers in ascending CUSTOMER_ID, each customer's
\* rows in that day order.
C6_AppendOnlyOrdered ==
    /\ [](/\ RowsOrdered(customer_transactions)
          /\ \A i \in 1 .. Len(customer_transactions) :
                customer_transactions[i].cust = cust
          /\ RowsOrdered(transactions_df)
          /\ pc = "done" => Len(transactions_df) = SumLen(applied))
    /\ [][/\ (pc = "day" /\ pc' \in {"day", "table"}) =>
               /\ IsPrefix(customer_transactions, customer_transactions')
               /\ \A i \in 1 .. Len(Appended(customer_transactions, customer_transactions')) :
                     Appended(customer_transactions, customer_transactions')[i].day = day
          /\ pc = "table" =>
               /\ IsPrefix(applied, applied')
               /\ applied'[Len(applied')] = customer_transactions
         ]_vars

\* C6 witness: an assembled dataset with rows of two customers, one of them
\* with rows of two different days and two rows of the same day.
C6_Witness ==
    /\ pc = "done"
    /\ \E i, j \in 1 .. Len(transactions_df) :
         transactions_df[i].cust # transactions_df[j].cust
    /\ \E i, j, k \in 1 .. Len(transactions_df) :
         /\ i < j /\ j < k
         /\ transactions_df[i].cust = transactions_df[k].cust
         /\ transactions_df[i].day = transactions_df[j].day
         /\ transactions_df[j].day < transactions_df[k].day

----------------------------------------------------------------------------
(* Claims about the radius functions, checked under SpecRadius *)

\* the terminals at Euclidean distance strictly less than r of the point:
\* dx^2 + dy^2 < r^2 for a positive r, none for r <= 0
StrictlyInside(point, terminals, r) ==
    {i \in 0 .. (Len(terminals) - 1) :
        r > 0 /\ SquaredDist(point, terminals, i) < r * r}

Ascending(s) == \A i, j \in 1 .. Len(s) : i < j => s[i] < s[j]

\* C9: both radius functions return exactly the indices of the terminals at
\* Euclidean distance strictly less than r of the point, in terminal order;
\* the weighted one selects the same terminals and returns one weight per
\* selected terminal (exp of minus its squared distance); both return an
\* empty result when no terminal is within r.
C9_RadiusExact ==
    /\ "plain" \in q_called =>
          /\ Ascending(q_plain)
          /\ SeqRange(q_plain) = StrictlyInside(q_point, q_terminals, q_r)
          /\ (StrictlyInside(q_point, q_terminals, q_r) = {} => q_plain = << >>)
    /\ "weighted" \in q_called =>
          /\ Ascending(q_weighted.available)
          /\ SeqRange(q_weighted.available) = StrictlyInside(q_point, q_terminals, q_r)
          /\ Len(q_weighted.weights) = Len(q_weighted.available)
          /\ \A k \in 1 .. Len(q_weighted.available) :
                q_weighted.weights[k] =
                    ExpNeg(SquaredDist(q_point, q_terminals, q_weighted.available[k]))
          /\ (StrictlyInside(q_point, q_terminals, q_r) = {} =>
                q_weighted.available = << >> /\ q_weighted.weights = << >>)
    /\ q_called = {"plain", "weighted"} => q_weighted.available = q_plain

\* C9 witness: both functions were called on a table with a terminal inside
\* the radius and a terminal at distance exactly r, which is left out.
C9_Witness ==
    /\ q_called = {"plain", "weighted"}
    /\ Len(q_plain) = 1
    /\ Len(q_terminals) = 2
    /\ \E i \in 0 .. (Len(q_terminals) - 1) :
         SquaredDist(q_point, q_terminals, i) = q_r * q_r

----------------------------------------------------------------------------
(* Claims about compute_time, checked under SpecTime *)

\* C10: the same-day rejection loop terminates under fair draws for every
\* previous time a fraud chain hands to it, and the time it returns satisfies
\* prev_time <= time <= 86400.  The draws do not depend on the loop's state,
\* so the loop ends under fair draws exactly when some draw ends it.
C10_LoopEndsInOrder ==
    /\ t_pc = "loop" =>
          \E x \in StepNormalDraws :
              ~(SameDayTime(previous_fraud[1], x) > DaySeconds)
    /\ (t_pc = "ret" /\ previous_fraud[2] = t_day) =>
          (previous_fraud[1] <= time_tx /\ time_tx <= DaySeconds)

----------------------------------------------------------------------------
(* Claims about export and load, checked under SpecIO *)

\* C8: export with a format other than 'csv' and 'pkl' reports an error and
\* is not silently ignored; load with a file name ending in neither '.csv'
\* nor '.pkl' fails with an explicit error.
C8_UnsupportedRejected ==
    /\ (io_call.op = "export" /\ io_call.format \notin {Csv, Pkl}) =>
          io_raised # ""
    /\ (/\ io_call.op = "load"
        /\ ~EndsWith(io_call.name, Dot \o Csv)
        /\ ~EndsWith(io_call.name, Dot \o Pkl)) =>
          io_raised = "ValueError"

=============================================================================
